---------------------------- MODULE Spec2Model ----------------------------
(***************************************************************************)
(* A model of src/index.ts: the Worker's fetch handler (cookie parsing,    *)
(* session verification, routing), the session issuer's success callback,  *)
(* the three store-backed handlers, and the script of the editor page.     *)
(*                                                                         *)
(* Text (a Cookie header, a request body, the stored document) is a        *)
(* sequence of one-character strings, so that splitting, trimming,         *)
(* serialising and parsing are computed, not assumed.  A signed JWT is one *)
(* opaque symbol of such a sequence ("J1", "J2", ...): its compact         *)
(* serialisation is base64url text and dots, which none of the string      *)
(* operations of the program can split.                                    *)
(***************************************************************************)
EXTENDS Integers, Sequences, FiniteSets, TLC

(***************************************************************************)
(* Bounds of the model.                                                    *)
(***************************************************************************)
MaxTokens == 2
MaxDays == 1
MaxMembers == 1

(***************************************************************************)
(* Characters.                                                             *)
(***************************************************************************)
QUOTE == "\""
BSLASH == "\\"
NL == "\n"
\* the backquote character, which a TLA+ string cannot hold
BACKTICK == "BT"
Digits == <<"0", "1", "2", "3", "4", "5", "6", "7", "8", "9">>
DigitSet == {Digits[i] : i \in 1..10}

RECURSIVE Spaces(_)
Spaces(n) == IF n <= 0 THEN <<>> ELSE <<" ">> \o Spaces(n - 1)

DigitValue(c) == (CHOOSE i \in 1..10 : Digits[i] = c) - 1

\* String(n) of a non-negative integer
RECURSIVE NatToStr(_)
NatToStr(n) ==
    IF n < 10 THEN <<Digits[n + 1]>>
    ELSE NatToStr(n \div 10) \o <<Digits[(n % 10) + 1]>>

\* String(n) / the number production of JSON.stringify, integers only
NumToStr(n) == IF n < 0 THEN <<"-">> \o NatToStr(0 - n) ELSE NatToStr(n)

RECURSIVE DigitsToNat(_, _)
DigitsToNat(s, acc) ==
    IF s = <<>> THEN acc ELSE DigitsToNat(Tail(s), acc * 10 + DigitValue(Head(s)))

(***************************************************************************)
(* JSON values.  One record shape for every value, so that any two values  *)
(* can be compared.  The members of an object and the items of an array    *)
(* are a sequence of [k, v] records (k is <<>> for an array item).         *)
(***************************************************************************)
JV(t, s, n, b, m) == [t |-> t, s |-> s, n |-> n, b |-> b, m |-> m]
Undefined == JV("undefined", <<>>, 0, FALSE, <<>>)
JNull == JV("null", <<>>, 0, FALSE, <<>>)
JStr(s) == JV("string", s, 0, FALSE, <<>>)
JNum(n) == JV("number", <<>>, n, FALSE, <<>>)
JBool(b) == JV("boolean", <<>>, 0, b, <<>>)
JObj(m) == JV("object", <<>>, 0, FALSE, m)
JArr(m) == JV("array", <<>>, 0, FALSE, m)
Member(k, v) == [k |-> k, v |-> v]

(***************************************************************************)
(* A text that may be missing: the undefined / null of the program.        *)
(***************************************************************************)
Txt(s) == [def |-> TRUE, s |-> s]
NoTxt == [def |-> FALSE, s |-> <<>>]

Chars_true == <<"t", "r", "u", "e">>
Chars_false == <<"f", "a", "l", "s", "e">>
Chars_null == <<"n", "u", "l", "l">>

(***************************************************************************)
(* JSON.stringify(value, null, gap).                                       *)
(***************************************************************************)
RECURSIVE QuoteChars(_)
QuoteChars(s) ==
    IF s = <<>> THEN <<>>
    ELSE LET c == Head(s)
             e == CASE c = QUOTE -> <<BSLASH, QUOTE>>
                    [] c = BSLASH -> <<BSLASH, BSLASH>>
                    [] c = NL -> <<BSLASH, "n">>
                    [] OTHER -> <<c>>
         IN  e \o QuoteChars(Tail(s))

QuoteJSONString(s) == <<QUOTE>> \o QuoteChars(s) \o <<QUOTE>>

RECURSIVE SerializeJSONProperty(_, _, _)
RECURSIVE SerializeMembers(_, _, _, _, _)
SerializeMembers(m, isObj, gap, ind, i) ==
    LET colon == IF gap = 0 THEN <<":">> ELSE <<":", " ">>
        one == (IF isObj THEN QuoteJSONString(m[i].k) \o colon ELSE <<>>)
               \o SerializeJSONProperty(m[i].v, gap, ind)
        sep == IF gap = 0 THEN <<",">> ELSE <<",", NL>> \o Spaces(ind)
    IN  IF i = Len(m) THEN one
        ELSE one \o sep \o SerializeMembers(m, isObj, gap, ind, i + 1)

SerializeJSONProperty(v, gap, ind) ==
    CASE v.t = "string" -> QuoteJSONString(v.s)
      [] v.t = "number" -> NumToStr(v.n)
      [] v.t = "boolean" -> IF v.b THEN Chars_true ELSE Chars_false
      [] v.t = "null" -> Chars_null
      [] v.t \in {"object", "array"} ->
            LET open == IF v.t = "object" THEN "{" ELSE "["
                close == IF v.t = "object" THEN "}" ELSE "]"
                body == SerializeMembers(v.m, v.t = "object", gap, ind + gap, 1)
            IN  IF v.m = <<>> THEN <<open, close>>
                ELSE IF gap = 0 THEN <<open>> \o body \o <<close>>
                ELSE <<open, NL>> \o Spaces(ind + gap) \o body
                     \o <<NL>> \o Spaces(ind) \o <<close>>

\* JSON.stringify of undefined is undefined, not a text
JSONstringify(v, gap) ==
    IF v.t = "undefined" THEN NoTxt ELSE Txt(SerializeJSONProperty(v, gap, 0))

(***************************************************************************)
(* JSON.parse(text): a recursive-descent parser.  A parse result is        *)
(* [ok, v, i]: whether a value was read, the value, the next position.     *)
(***************************************************************************)
WhiteSpace == {" ", NL, "\t", "\r"}
PFail == [ok |-> FALSE, v |-> Undefined, i |-> 0]
POk(v, i) == [ok |-> TRUE, v |-> v, i |-> i]

RECURSIVE SkipWs(_, _)
SkipWs(s, i) == IF i <= Len(s) /\ s[i] \in WhiteSpace THEN SkipWs(s, i + 1) ELSE i

HasAt(s, i, w) ==
    /\ i + Len(w) - 1 <= Len(s)
    /\ \A j \in 1..Len(w) : s[i + j - 1] = w[j]

\* the characters of a string literal, from position i (after the opening quote)
RECURSIVE ParseStringChars(_, _, _)
ParseStringChars(s, i, acc) ==
    IF i > Len(s) THEN PFail
    ELSE IF s[i] = QUOTE THEN POk(JStr(acc), i + 1)
    ELSE IF s[i] = BSLASH THEN
        IF i + 1 > Len(s) THEN PFail
        ELSE IF s[i + 1] \in {QUOTE, BSLASH, "/"}
             THEN ParseStringChars(s, i + 2, Append(acc, s[i + 1]))
        ELSE IF s[i + 1] = "n" THEN ParseStringChars(s, i + 2, Append(acc, NL))
        ELSE IF s[i + 1] = "t" THEN ParseStringChars(s, i + 2, Append(acc, "\t"))
        ELSE IF s[i + 1] = "r" THEN ParseStringChars(s, i + 2, Append(acc, "\r"))
        ELSE PFail
    ELSE IF s[i] \in {NL, "\t", "\r"} THEN PFail
    ELSE ParseStringChars(s, i + 1, Append(acc, s[i]))

RECURSIVE DigitRun(_, _)
DigitRun(s, i) == IF i <= Len(s) /\ s[i] \in DigitSet THEN DigitRun(s, i + 1) ELSE i

\* an integer literal: -? (0 | [1-9][0-9]*)
ParseNumber(s, i) ==
    LET neg == i <= Len(s) /\ s[i] = "-"
        d == IF neg THEN i + 1 ELSE i
        e == DigitRun(s, d)
    IN  IF e = d THEN PFail
        ELSE IF s[d] = "0" /\ e > d + 1 THEN PFail
        ELSE LET n == DigitsToNat(SubSeq(s, d, e - 1), 0)
             IN  POk(JNum(IF neg THEN 0 - n ELSE n), e)

\* obj[k] = v on the members parsed so far: a repeated key keeps its place
PutMember(m, k, v) ==
    IF \E j \in 1..Len(m) : m[j].k = k
    THEN [j \in 1..Len(m) |-> IF m[j].k = k THEN Member(k, v) ELSE m[j]]
    ELSE Append(m, Member(k, v))

RECURSIVE ParseValue(_, _)
RECURSIVE ParseMembers(_, _, _)
RECURSIVE ParseElements(_, _, _)

\* i is at the first member's key (after the brace or a comma)
ParseMembers(s, i0, acc) ==
    LET i == SkipWs(s, i0)
    IN  IF i > Len(s) \/ s[i] # QUOTE THEN PFail
        ELSE LET key == ParseStringChars(s, i + 1, <<>>)
             IN  IF ~key.ok THEN PFail
                 ELSE LET c == SkipWs(s, key.i)
                      IN  IF c > Len(s) \/ s[c] # ":" THEN PFail
                          ELSE LET val == ParseValue(s, c + 1)
                               IN  IF ~val.ok THEN PFail
                                   ELSE LET e == SkipWs(s, val.i)
                                            m == PutMember(acc, key.v.s, val.v)
                                        IN  IF e > Len(s) THEN PFail
                                            ELSE IF s[e] = "," THEN ParseMembers(s, e + 1, m)
                                            ELSE IF s[e] = "}" THEN POk(JObj(m), e + 1)
                                            ELSE PFail

ParseElements(s, i0, acc) ==
    LET val == ParseValue(s, i0)
    IN  IF ~val.ok THEN PFail
        ELSE LET e == SkipWs(s, val.i)
                 m == Append(acc, Member(<<>>, val.v))
             IN  IF e > Len(s) THEN PFail
                 ELSE IF s[e] = "," THEN ParseElements(s, e + 1, m)
                 ELSE IF s[e] = "]" THEN POk(JArr(m), e + 1)
                 ELSE PFail

ParseValue(s, i0) ==
    LET i == SkipWs(s, i0)
    IN  IF i > Len(s) THEN PFail
        ELSE IF s[i] = "{" THEN
            LET j == SkipWs(s, i + 1)
            IN  IF j <= Len(s) /\ s[j] = "}" THEN POk(JObj(<<>>), j + 1)
                ELSE ParseMembers(s, i + 1, <<>>)
        ELSE IF s[i] = "[" THEN
            LET j == SkipWs(s, i + 1)
            IN  IF j <= Len(s) /\ s[j] = "]" THEN POk(JArr(<<>>), j + 1)
                ELSE ParseElements(s, i + 1, <<>>)
        ELSE IF s[i] = QUOTE THEN ParseStringChars(s, i + 1, <<>>)
        ELSE IF HasAt(s, i, Chars_true) THEN POk(JBool(TRUE), i + 4)
        ELSE IF HasAt(s, i, Chars_false) THEN POk(JBool(FALSE), i + 5)
        ELSE IF HasAt(s, i, Chars_null) THEN POk(JNull, i + 4)
        ELSE ParseNumber(s, i)

\* JSON.parse: [ok, v]; ok is FALSE where JSON.parse throws SyntaxError
JSONparse(s) ==
    LET r == ParseValue(s, 1)
    IN  IF r.ok /\ SkipWs(s, r.i) = Len(s) + 1
        THEN [ok |-> TRUE, v |-> r.v]
        ELSE [ok |-> FALSE, v |-> Undefined]

(***************************************************************************)
(* String.prototype.split, startsWith, trim.                               *)
(***************************************************************************)
\* the first position >= i where sep occurs in s, or 0
RECURSIVE IndexOf(_, _, _)
IndexOf(s, sep, i) ==
    IF i + Len(sep) - 1 > Len(s) THEN 0
    ELSE IF HasAt(s, i, sep) THEN i
    ELSE IndexOf(s, sep, i + 1)

\* s.split(sep), sep not empty
RECURSIVE Split(_, _)
Split(s, sep) ==
    LET p == IndexOf(s, sep, 1)
    IN  IF p = 0 THEN <<s>>
        ELSE <<SubSeq(s, 1, p - 1)>> \o Split(SubSeq(s, p + Len(sep), Len(s)), sep)

StartsWith(s, prefix) == HasAt(s, 1, prefix)

RECURSIVE TrimStart(_)
TrimStart(s) ==
    IF s # <<>> /\ Head(s) \in WhiteSpace THEN TrimStart(Tail(s)) ELSE s

RECURSIVE TrimEnd(_)
TrimEnd(s) ==
    IF s # <<>> /\ s[Len(s)] \in WhiteSpace THEN TrimEnd(SubSeq(s, 1, Len(s) - 1)) ELSE s

Trim(s) == TrimEnd(TrimStart(s))

(***************************************************************************)
(* Configuration (lines 20-22) and the session's lifetimes.                *)
(***************************************************************************)
TokenPrefix == <<"t", "o", "k", "e", "n", "=">>
EmptyObjectText == <<"{", "}">>

\* setExpirationTime('24h'): seconds from signing to expiry
ExpirationTime == 24 * 60 * 60
\* Max-Age of the session cookie
MaxAge == 24 * 60 * 60

\* the compact serialisations SignJWT(...).sign(secret) has produced, in order
JwtAtoms == <<"J1", "J2", "J3", "J4">>

(***************************************************************************)
(* Lines 34-35: the credential fetch reads from the Cookie header.         *)
(*   request.headers.get('Cookie')?.split('; ')                            *)
(*       .find(row => row.startsWith('token='))?.split('=')[1]             *)
(***************************************************************************)
FindTokenRow(rows) ==
    IF \E i \in 1..Len(rows) : StartsWith(rows[i], TokenPrefix)
    THEN Txt(rows[CHOOSE i \in 1..Len(rows) :
                    /\ StartsWith(rows[i], TokenPrefix)
                    /\ \A j \in 1..(i - 1) : ~StartsWith(rows[j], TokenPrefix)])
    ELSE NoTxt

CookieToken(cookie) ==
    IF ~cookie.def THEN NoTxt
    ELSE LET row == FindTokenRow(Split(cookie.s, <<";", " ">>))
         IN  IF ~row.def THEN NoTxt
             ELSE LET parts == Split(row.s, <<"=">>)
                  IN  IF Len(parts) >= 2 THEN Txt(parts[2]) ELSE NoTxt

\* if (token): undefined and the empty string are falsy
Truthy(t) == t.def /\ t.s # <<>>

(***************************************************************************)
(* Line 40: jwtVerify(token, secret) at clock time t.  The token verifies  *)
(* when it is a serialisation signed with the secret (one of iss) whose    *)
(* exp claim is later than t; jose rejects exp <= t.  No option asks for a *)
(* check of iat or a clock tolerance.                                      *)
(***************************************************************************)
SignedIndex(token, iss) ==
    IF \E k \in 1..Len(iss) : token = <<JwtAtoms[k]>>
    THEN CHOOSE k \in 1..Len(iss) : token = <<JwtAtoms[k]>>
    ELSE 0

jwtVerify(token, iss, t) ==
    LET k == SignedIndex(token, iss)
    IN  k # 0 /\ iss[k].exp > t

\* setExpirationTime('1h') in place of '24h'
SignJWT_OneHour(userId, t) == [id |-> userId, iat |-> t, exp |-> t + 60 * 60]

(***************************************************************************)
(* Lines 95-99: the claims of the JWT signed at clock time t.              *)
(***************************************************************************)
SignJWT(userId, t) == [id |-> userId, iat |-> t, exp |-> t + ExpirationTime]

(***************************************************************************)
(* State.                                                                  *)
(*   kvBinding  env.MY_CONFIG_KV in this deployment: "missing", or a       *)
(*              namespace whose put rejects a value that is not text       *)
(*              ("strict") or turns it into text ("coercing")             *)
(*   kvStore    the value stored under json_config (NoTxt: no such key)    *)
(*   now        the clock, in seconds                                      *)
(*   issued     the claims of the JWTs signed so far (JwtAtoms[k] <-> k)   *)
(*   users      the user table of AUTH_DB: the emails, the id is the index *)
(*   req, resp  the request being served and the response to it            *)
(*   token      the local `token` of the fetch serving req                 *)
(*   published  history: the data of the last publish answered 200        *)
(*   page       the editor page open in the browser                        *)
(*   pubs       the publishes in progress, step by step (concurrency)      *)
(*   writeLog   history: the order of the store writes of pubs             *)
(***************************************************************************)
VARIABLES kvBinding, kvStore, now, issued, users, req, resp, token, published,
          page, pubs, writeLog

serverVars == <<kvBinding, kvStore, now, issued, users, req, resp, token, published>>
vars == <<kvBinding, kvStore, now, issued, users, req, resp, token, published,
          page, pubs, writeLog>>

(***************************************************************************)
(* Requests and responses.                                                 *)
(*   data     what the client serialised into the body (Undefined: none)   *)
(*   login    the email the issuer authenticates with this request, or ""  *)
(*   kvFault  the store fails the operation this request performs          *)
(*   dbFault  the user table returns no row                                *)
(***************************************************************************)
Req(method, path, cookie, body, data, login, kvFault, dbFault) ==
    [method |-> method, path |-> path, cookie |-> cookie, body |-> body,
     data |-> data, login |-> login, kvFault |-> kvFault, dbFault |-> dbFault]
NoReq == Req("", "", NoTxt, <<>>, Undefined, "", FALSE, FALSE)

SetCookie(value, maxAge) == [def |-> TRUE, value |-> value, maxAge |-> maxAge]
NoCookie == [def |-> FALSE, value |-> <<>>, maxAge |-> 0]

Resp(status, kind, body, cookie) ==
    [status |-> status, kind |-> kind, body |-> body, cookie |-> cookie]
NoResp == Resp(0, "", <<>>, NoCookie)
\* a rejected promise: no Response object is produced
Thrown == Resp(0, "exception", <<>>, NoCookie)

Chars_undefined == <<"u", "n", "d", "e", "f", "i", "n", "e", "d">>
Chars_data == <<"d", "a", "t", "a">>

\* value.name of a parsed JSON value: undefined unless an object has the member
GetMember(v, name) ==
    IF v.t = "object" /\ \E i \in 1..Len(v.m) : v.m[i].k = name
    THEN v.m[CHOOSE i \in 1..Len(v.m) : v.m[i].k = name].v
    ELSE Undefined

(***************************************************************************)
(* Lines 134-168, 333-335: handleEditorPage; the body of the page is the   *)
(* text interpolated at line 209.                                          *)
(***************************************************************************)
handleEditorPage(r, kv, store) ==
    IF kv = "missing" THEN Resp(500, "missingKv", <<>>, NoCookie)
    ELSE IF r.kvFault THEN Thrown
    ELSE Resp(200, "editor", IF Truthy(store) THEN store.s ELSE EmptyObjectText,
              NoCookie)

(***************************************************************************)
(* Lines 338-346: handlePublish, [resp, store]: the body is read, the text *)
(* is put, the response is built.                                          *)
(***************************************************************************)
PublishGap == 2

\* line 340: const { data } = await request.json()
publishData(body) ==
    LET parsed == JSONparse(body)
    IN  IF ~parsed.ok \/ parsed.v.t = "null"
        THEN [ok |-> FALSE, data |-> Undefined]
        ELSE [ok |-> TRUE, data |-> GetMember(parsed.v, Chars_data)]

\* JSON.stringify(data) with no indent in place of JSON.stringify(data, null, 2)
publishPut_Compact(data, r, kv, store) ==
    LET text == JSONstringify(data, 0)
    IN  IF kv = "missing" \/ r.kvFault THEN [ok |-> FALSE, store |-> store]
        ELSE IF ~text.def
             THEN IF kv = "coercing" THEN [ok |-> TRUE, store |-> Txt(Chars_undefined)]
                  ELSE [ok |-> FALSE, store |-> store]
        ELSE [ok |-> TRUE, store |-> Txt(text.s)]

\* the members of data written over those of the stored object, the others kept
RECURSIVE PutMembers(_, _, _)
PutMembers(m, new, i) ==
    IF i > Len(new) THEN m ELSE PutMembers(PutMember(m, new[i].k, new[i].v), new, i + 1)

publishPut_Merge(data, r, kv, store) ==
    LET old == IF store.def THEN JSONparse(store.s) ELSE [ok |-> FALSE, v |-> Undefined]
        merged == IF old.ok /\ old.v.t = "object" /\ data.t = "object"
                  THEN JObj(PutMembers(old.v.m, data.m, 1))
                  ELSE data
        text == JSONstringify(merged, PublishGap)
    IN  IF kv = "missing" \/ r.kvFault THEN [ok |-> FALSE, store |-> store]
        ELSE IF ~text.def
             THEN IF kv = "coercing" THEN [ok |-> TRUE, store |-> Txt(Chars_undefined)]
                  ELSE [ok |-> FALSE, store |-> store]
        ELSE [ok |-> TRUE, store |-> Txt(text.s)]

\* line 341: await env[kvBinding].put(configKey, JSON.stringify(data, null, 2))
publishPut(data, r, kv, store) ==
    LET text == JSONstringify(data, PublishGap)
    IN  IF kv = "missing" \/ r.kvFault THEN [ok |-> FALSE, store |-> store]
        ELSE IF ~text.def
             THEN IF kv = "coercing" THEN [ok |-> TRUE, store |-> Txt(Chars_undefined)]
                  ELSE [ok |-> FALSE, store |-> store]
        ELSE [ok |-> TRUE, store |-> Txt(text.s)]

PublishSaved == Resp(200, "saved", <<>>, NoCookie)
PublishFailed == Resp(500, "error", <<>>, NoCookie)

handlePublish(r, kv, store) ==
    LET d == publishData(r.body)
        w == publishPut(d.data, r, kv, store)
    IN  IF ~d.ok THEN [resp |-> PublishFailed, store |-> store]
        ELSE IF ~w.ok THEN [resp |-> PublishFailed, store |-> store]
        ELSE [resp |-> PublishSaved, store |-> w.store]

(***************************************************************************)
(* Lines 348-359: handleApi.                                               *)
(***************************************************************************)
handleApi(r, kv, store) ==
    IF kv = "missing" \/ r.kvFault THEN Thrown
    ELSE Resp(200, "api", IF Truthy(store) THEN store.s ELSE EmptyObjectText,
              NoCookie)

(***************************************************************************)
(* Lines 361-369: handleLogout.                                            *)
(***************************************************************************)
handleLogout == Resp(302, "logout", <<>>, SetCookie(<<>>, 0))

(***************************************************************************)
(* Lines 114-131: getOrCreateUser, [ok, id, users].                        *)
(***************************************************************************)
getOrCreateUser(r, us) ==
    IF r.dbFault THEN [ok |-> FALSE, id |-> 0, users |-> us]
    ELSE IF \E i \in 1..Len(us) : us[i] = r.login
    THEN [ok |-> TRUE, id |-> CHOOSE i \in 1..Len(us) : us[i] = r.login, users |-> us]
    ELSE [ok |-> TRUE, id |-> Len(us) + 1, users |-> Append(us, r.login)]

(***************************************************************************)
(* Lines 90-109: the success callback of the issuer, [resp, issued, users] *)
(***************************************************************************)
success(r, iss, us, t) ==
    LET u == getOrCreateUser(r, us)
    IN  IF ~u.ok THEN [resp |-> Thrown, issued |-> iss, users |-> us]
        ELSE [resp |-> Resp(302, "login", <<>>,
                            SetCookie(<<JwtAtoms[Len(iss) + 1]>>, MaxAge)),
              issued |-> Append(iss, SignJWT(u.id, t)),
              users |-> u.users]

(***************************************************************************)
(* Lines 29-112: fetch.                                                    *)
(***************************************************************************)
Authenticated(r, iss, t) ==
    LET tok == CookieToken(r.cookie)
    IN  Truthy(tok) /\ jwtVerify(tok.s, iss, t)

Route(r, kv, store) ==
    CASE r.path = "/" -> [resp |-> handleEditorPage(r, kv, store), store |-> store]
      [] r.path = "/publish" -> handlePublish(r, kv, store)
      [] r.path = "/api/config" -> [resp |-> handleApi(r, kv, store), store |-> store]
      [] r.path = "/logout" -> [resp |-> handleLogout, store |-> store]
      [] OTHER -> [resp |-> Resp(404, "notFound", <<>>, NoCookie), store |-> store]

Fetch ==
    /\ req # NoReq
    /\ resp = NoResp
    /\ token' = CookieToken(req.cookie)
    /\ IF Authenticated(req, issued, now)
       THEN LET out == Route(req, kvBinding, kvStore)
            IN  /\ resp' = out.resp
                /\ kvStore' = out.store
                /\ published' = IF out.resp.kind = "saved"
                                THEN [def |-> TRUE, data |-> req.data]
                                ELSE published
                /\ UNCHANGED <<issued, users>>
       ELSE IF req.login = ""
            THEN /\ resp' = Resp(0, "issuer", <<>>, NoCookie)
                 /\ UNCHANGED <<kvStore, published, issued, users>>
            ELSE LET out == success(req, issued, users, now)
                 IN  /\ resp' = out.resp
                     /\ issued' = out.issued
                     /\ users' = out.users
                     /\ UNCHANGED <<kvStore, published>>
    /\ UNCHANGED <<kvBinding, now, req, page, pubs, writeLog>>

(***************************************************************************)
(* The environment: the requests that arrive, the clock.                   *)
(***************************************************************************)
KeyNames == <<<<"a">>, <<"b">>, <<"c">>, <<"d">>>>
PrimValues == {JStr(<<"x", QUOTE>>), JNum(-10), JBool(TRUE)}

\* the flat objects of n members
FlatDocs(n) ==
    {JObj([i \in 1..n |-> Member(KeyNames[i], f[i])]) : f \in [1..n -> PrimValues]}

PublishDocs == UNION {FlatDocs(n) : n \in 0..MaxMembers}

\* data that is not a flat object of strings, numbers and booleans
OtherData ==
    {JNum(5), JStr(<<"s">>), JBool(TRUE), JNull, JArr(<<Member(<<>>, JNum(1))>>),
     JObj(<<Member(<<"a">>, JNull)>>), JObj(<<Member(<<"a">>, JObj(<<>>))>>)}

\* line 304: body: JSON.stringify({ data: data })
BodyOf(data) ==
    IF data.t = "undefined" THEN EmptyObjectText
    ELSE JSONstringify(JObj(<<Member(Chars_data, data)>>), 0).s

\* bodies no client of the page sends: not JSON, or JSON that is not an object
BrokenBodies == {<<>>, <<"{">>, <<"{", QUOTE, "d", "a", "t", "a", QUOTE, ":">>}
NonObjectBodies == {<<"5">>, Chars_null, <<"[", "1", "]">>, <<QUOTE, "s", QUOTE>>}

PublishInputs ==
    {[body |-> BodyOf(d), data |-> d] : d \in PublishDocs \cup OtherData \cup {Undefined}}
    \cup {[body |-> b, data |-> Undefined] : b \in BrokenBodies \cup NonObjectBodies}

CookieOf(value) == Txt(TokenPrefix \o value)

\* no cookie, a session, a session followed by =x, a JWT signed with another secret
StoreCookies ==
    {NoTxt, CookieOf(<<JwtAtoms[1]>>), CookieOf(<<JwtAtoms[1], "=", "x">>),
     CookieOf(<<"F1">>)}

Emails == {"ann"}

LoginRequests ==
    {Req("GET", "/callback", NoTxt, <<>>, Undefined, e, FALSE, f) :
        e \in Emails, f \in BOOLEAN}

StoreRequests ==
    {Req(m, "/publish", c, p.body, p.data, "", f, FALSE) :
        m \in {"POST", "PUT"}, c \in StoreCookies, p \in PublishInputs, f \in BOOLEAN}
    \cup {Req("GET", "/publish", c, <<>>, Undefined, "", FALSE, FALSE) : c \in StoreCookies}
    \cup {Req(m, p, c, <<>>, Undefined, "", f, FALSE) :
            m \in {"GET", "POST"}, p \in {"/", "/api/config"}, c \in StoreCookies,
            f \in BOOLEAN}
    \cup {Req(m, p, c, <<>>, Undefined, "", FALSE, FALSE) :
            m \in {"GET", "POST"}, p \in {"/logout", "/other"}, c \in StoreCookies}
    \cup LoginRequests

\* the instants the clock is read at: around each multiple of the lifetime
Instants ==
    {t \in {k * ExpirationTime + e : k \in 0..MaxDays, e \in {-1, 0, 1}} : t >= 0}

Arrive(r) ==
    /\ req = NoReq
    /\ r.login # "" => Len(issued) < MaxTokens
    /\ req' = r
    /\ UNCHANGED <<kvBinding, kvStore, now, issued, users, resp, token, published,
                   page, pubs, writeLog>>

ArriveStore == \E r \in StoreRequests : (r.login # "" => issued = <<>>) /\ Arrive(r)

\* the response leaves; the invocation and its locals are gone
Deliver ==
    /\ resp # NoResp
    /\ req' = NoReq
    /\ resp' = NoResp
    /\ token' = NoTxt
    /\ UNCHANGED <<kvBinding, kvStore, now, issued, users, published, page, pubs,
                   writeLog>>

Tick ==
    /\ req = NoReq
    /\ \E t \in Instants : t > now /\ now' = t
    /\ UNCHANGED <<kvBinding, kvStore, issued, users, req, resp, token, published,
                   page, pubs, writeLog>>

(***************************************************************************)
(* Sessions over time: few routes, every session, the clock moving.        *)
(***************************************************************************)
SessionCookies ==
    {NoTxt, CookieOf(<<"F1">>)} \cup {CookieOf(<<JwtAtoms[k]>>) : k \in 1..MaxTokens}

SessionRequests ==
    {Req("GET", p, c, <<>>, Undefined, "", FALSE, FALSE) :
        p \in {"/", "/logout"}, c \in SessionCookies}
    \cup LoginRequests

ArriveSession == \E r \in SessionRequests : Arrive(r)

(***************************************************************************)
(* Cookie headers: one or two name=value pairs, joined by "; " or by ";".  *)
(***************************************************************************)
CookiePairs ==
    {<<"a", "=", "b">>, <<"a", "=", "b", "=", "c">>, <<"x", "t", "o", "k", "e", "n", "=", "y">>,
     TokenPrefix, TokenPrefix \o <<JwtAtoms[1]>>, TokenPrefix \o <<JwtAtoms[1], "=", "x">>}

CookieHeaders ==
    {Txt(p) : p \in CookiePairs}
    \cup {Txt(p \o sep \o q) :
            p \in CookiePairs, q \in CookiePairs, sep \in {<<";", " ">>, <<";">>}}

CookieRequests ==
    {Req("GET", "/", c, <<>>, Undefined, "", FALSE, FALSE) :
        c \in {NoTxt} \cup CookieHeaders}
    \cup LoginRequests

ArriveCookie == \E r \in CookieRequests : (r.login # "" => issued = <<>>) /\ Arrive(r)

(***************************************************************************)
(* Publishes in progress at the same time.  Each invocation of             *)
(* handlePublish stops at its two awaits: a publish is at "json" (awaiting *)
(* request.json()), at "put" (the put not yet applied by the store), at    *)
(* "respond" (the put applied, its promise not yet resumed) or "done".     *)
(***************************************************************************)
MaxPublishers == 2
Publishers == 1..MaxPublishers

ConcurrentDocs ==
    {JObj(<<>>),
     JObj(<<Member(<<"a">>, JStr(<<"x", QUOTE>>))>>),
     JObj(<<Member(<<"a">>, JNum(-10)), Member(<<"b">>, JBool(TRUE))>>)}

ConcurrentRequests ==
    {Req("POST", "/publish", CookieOf(<<JwtAtoms[1]>>), BodyOf(d), d, "", f, FALSE) :
        d \in ConcurrentDocs, f \in BOOLEAN}

Pub(pc, r, data, response) == [pc |-> pc, req |-> r, data |-> data, resp |-> response]
NoPub == Pub("idle", NoReq, Undefined, NoResp)

\* fetch verifies the session and calls handlePublish
PubArrive(p) ==
    /\ pubs[p].pc = "idle"
    /\ \E r \in ConcurrentRequests :
          /\ Authenticated(r, issued, now)
          /\ pubs' = [pubs EXCEPT ![p] = Pub("json", r, Undefined, NoResp)]
    /\ UNCHANGED <<serverVars, page, writeLog>>

\* line 340
PubJson(p) ==
    /\ pubs[p].pc = "json"
    /\ LET d == publishData(pubs[p].req.body)
       IN  pubs' = [pubs EXCEPT ![p] =
                      IF d.ok THEN Pub("put", pubs[p].req, d.data, NoResp)
                      ELSE Pub("done", pubs[p].req, Undefined, PublishFailed)]
    /\ UNCHANGED <<serverVars, page, writeLog>>

\* line 341: the store applies the put, or fails it
PubPut(p) ==
    /\ pubs[p].pc = "put"
    /\ LET w == publishPut(pubs[p].data, pubs[p].req, kvBinding, kvStore)
       IN  /\ kvStore' = w.store
           /\ writeLog' = IF w.ok THEN Append(writeLog, p) ELSE writeLog
           /\ pubs' = [pubs EXCEPT ![p] =
                         IF w.ok THEN Pub("respond", pubs[p].req, pubs[p].data, NoResp)
                         ELSE Pub("done", pubs[p].req, pubs[p].data, PublishFailed)]
    /\ UNCHANGED <<kvBinding, now, issued, users, req, resp, token, published, page>>

\* line 342
PubRespond(p) ==
    /\ pubs[p].pc = "respond"
    /\ pubs' = [pubs EXCEPT ![p] = Pub("done", pubs[p].req, pubs[p].data, PublishSaved)]
    /\ UNCHANGED <<serverVars, page, writeLog>>

(***************************************************************************)
(* The script of the editor page, lines 209-328, as the browser runs it.   *)
(*   page.phase   "closed", "loaded" (the script ran to the end of its     *)
(*                DOMContentLoaded handler) or "scriptError"               *)
(*   page.config  the text interpolated into line 209                      *)
(*   page.rows    the .node-row elements: key input, select, value input   *)
(*   page.data    what the last updateOutput collected                     *)
(*   page.edits   the number of edits the user has made                    *)
(***************************************************************************)
MaxEdits == 2
MaxRows == 2

Page(phase, config, rows, data, edits) ==
    [phase |-> phase, config |-> config, rows |-> rows, data |-> data, edits |-> edits]
NoPage == Page("closed", <<>>, <<>>, Undefined, 0)

Row(key, type, value, checked) ==
    [key |-> key, type |-> type, value |-> value, checked |-> checked]

\* line 209: the text between the backquotes is a template literal of the
\* page's script: its escape sequences are cooked, an unescaped backquote
\* ends it and ${ opens a substitution, either of which breaks the script
RECURSIVE TemplateCook(_, _, _)
TemplateCook(s, i, acc) ==
    IF i > Len(s) THEN [ok |-> TRUE, s |-> acc]
    ELSE IF s[i] = BACKTICK THEN [ok |-> FALSE, s |-> <<>>]
    ELSE IF s[i] = "$" /\ i < Len(s) /\ s[i + 1] = "{" THEN [ok |-> FALSE, s |-> <<>>]
    ELSE IF s[i] = BSLASH THEN
        IF i = Len(s) THEN [ok |-> FALSE, s |-> <<>>]
        ELSE LET c == s[i + 1]
                 e == CASE c = "n" -> NL
                        [] c = "t" -> "\t"
                        [] c = "r" -> "\r"
                        [] OTHER -> c
             IN  TemplateCook(s, i + 2, Append(acc, e))
    ELSE TemplateCook(s, i + 1, Append(acc, s[i]))

Chars_objectObject ==
    <<"[", "o", "b", "j", "e", "c", "t", " ", "O", "b", "j", "e", "c", "t", "]">>

\* String(value)
RECURSIVE ToStringJS(_)
RECURSIVE JoinItems(_, _)
JoinItems(m, i) ==
    IF i > Len(m) THEN <<>>
    ELSE (IF m[i].v.t \in {"null", "undefined"} THEN <<>> ELSE ToStringJS(m[i].v))
         \o (IF i < Len(m) THEN <<",">> ELSE <<>>)
         \o JoinItems(m, i + 1)

ToStringJS(v) ==
    CASE v.t = "string" -> v.s
      [] v.t = "number" -> NumToStr(v.n)
      [] v.t = "boolean" -> IF v.b THEN Chars_true ELSE Chars_false
      [] v.t = "null" -> Chars_null
      [] v.t = "undefined" -> Chars_undefined
      [] v.t = "object" -> Chars_objectObject
      [] v.t = "array" -> JoinItems(v.m, 1)

\* the value of a text input never holds a line break
RECURSIVE StripNewlines(_)
StripNewlines(s) ==
    IF s = <<>> THEN <<>>
    ELSE (IF Head(s) \in {NL, "\r"} THEN <<>> ELSE <<Head(s)>>) \o StripNewlines(Tail(s))

\* the value of a number input is a valid number or empty
IsNumberText(s) == ParseNumber(s, 1).ok /\ ParseNumber(s, 1).i = Len(s) + 1

\* Number(text) of the value of a number input
NumberOf(s) == ParseNumber(s, 1).v

\* lines 215-231: createValueInput(type, value), [value, checked]
createValueInput(type, value) ==
    LET inputValue == IF value.t \in {"undefined", "null"} THEN <<>> ELSE ToStringJS(value)
    IN  IF type = "number"
        THEN [value |-> IF IsNumberText(inputValue) THEN inputValue ELSE <<>>,
              checked |-> FALSE]
        ELSE IF type = "boolean"
        THEN [value |-> <<>>, checked |-> (value = JBool(TRUE))]
        ELSE [value |-> StripNewlines(inputValue), checked |-> FALSE]

\* lines 232-267: addNode(key, value, type), the row it appends
addNode(key, value, type) ==
    LET input == createValueInput(type, value)
    IN  Row(StripNewlines(key), type, input.value, input.checked)

\* line 321
TypeTag(value) ==
    IF value.t = "boolean" THEN "boolean"
    ELSE IF value.t = "number" THEN "number"
    ELSE "string"

\* the enumerable own properties of initialConfig, as for-in visits them
OwnProperties(v) ==
    CASE v.t = "object" -> v.m
      [] v.t = "array" -> [i \in 1..Len(v.m) |-> Member(NatToStr(i - 1), v.m[i].v)]
      [] v.t = "string" -> [i \in 1..Len(v.s) |-> Member(NatToStr(i - 1), JStr(<<v.s[i]>>))]
      [] OTHER -> <<>>

\* lines 318-326: the rows the DOMContentLoaded handler builds
InitialRows(initialConfig) ==
    LET props == OwnProperties(initialConfig)
    IN  IF Len(props) > 0
        THEN [i \in 1..Len(props) |-> addNode(props[i].k, props[i].v, TypeTag(props[i].v))]
        ELSE <<addNode(<<>>, Undefined, "string")>>

\* lines 268-288: collectData()
RECURSIVE CollectRows(_, _, _)
CollectRows(rows, i, acc) ==
    IF i > Len(rows) THEN acc
    ELSE LET row == rows[i]
             key == Trim(row.key)
             value == IF row.type = "number"
                      THEN IF row.value # <<>> THEN NumberOf(row.value) ELSE JNull
                      ELSE IF row.type = "boolean" THEN JBool(row.checked)
                      ELSE JStr(row.value)
         IN  CollectRows(rows, i + 1, IF key # <<>> THEN PutMember(acc, key, value) ELSE acc)

collectData(rows) == JObj(CollectRows(rows, 1, <<>>))

\* the script from line 209 to the end of the DOMContentLoaded handler: a
\* script that does not parse, a JSON.parse that throws at line 209 and an
\* Object.keys(null) that throws at line 318 each leave no row
RunScript(config) ==
    LET cooked == TemplateCook(config, 1, <<>>)
        parsed == JSONparse(cooked.s)
    IN  IF ~cooked.ok \/ ~parsed.ok \/ parsed.v.t = "null"
        THEN Page("scriptError", config, <<>>, Undefined, 0)
        ELSE LET rows == InitialRows(parsed.v)
             IN  Page("loaded", config, rows, collectData(rows), 0)

\* the browser receives the page of GET / and runs it
OpenPage ==
    /\ resp.kind = "editor"
    /\ page' = RunScript(resp.body)
    /\ req' = NoReq
    /\ resp' = NoResp
    /\ token' = NoTxt
    /\ UNCHANGED <<kvBinding, kvStore, now, issued, users, published, pubs, writeLog>>

\* every handler of the page ends in updateOutput()
Edited(rows) == Page("loaded", page.config, rows, collectData(rows), page.edits + 1)

CanEdit == page.phase = "loaded" /\ page.edits < MaxEdits

pageFrame == <<serverVars, pubs, writeLog>>

\* lines 294-297: the add button
AddRow ==
    /\ CanEdit
    /\ Len(page.rows) < MaxRows
    /\ page' = Edited(Append(page.rows, addNode(<<>>, Undefined, "string")))
    /\ UNCHANGED pageFrame

\* lines 250-253: the delete button of row i
DeleteRow ==
    /\ CanEdit
    /\ \E i \in 1..Len(page.rows) :
          page' = Edited(SubSeq(page.rows, 1, i - 1)
                         \o SubSeq(page.rows, i + 1, Len(page.rows)))
    /\ UNCHANGED pageFrame

\* lines 254-261: the select of row i changes to another type
ChangeType ==
    /\ CanEdit
    /\ \E i \in 1..Len(page.rows), t \in {"string", "number", "boolean"} :
          /\ t # page.rows[i].type
          /\ LET input == createValueInput(t, JNull)
             IN  page' = Edited([page.rows EXCEPT
                                   ![i] = Row(page.rows[i].key, t, input.value, input.checked)])
    /\ UNCHANGED pageFrame

EditKeys == {<<>>, <<"k">>, <<"k", " ">>}
EditTexts == {<<>>, <<"7">>}

\* lines 240, 229: the user types in the key input or the value input of row i
EditKey ==
    /\ CanEdit
    /\ \E i \in 1..Len(page.rows), k \in EditKeys :
          /\ k # page.rows[i].key
          /\ page' = Edited([page.rows EXCEPT ![i].key = k])
    /\ UNCHANGED pageFrame

EditValue ==
    /\ CanEdit
    /\ \E i \in 1..Len(page.rows), v \in EditTexts :
          /\ page.rows[i].type \in {"string", "number"}
          /\ v # page.rows[i].value
          /\ page' = Edited([page.rows EXCEPT ![i].value = v])
    /\ UNCHANGED pageFrame

ToggleCheck ==
    /\ CanEdit
    /\ \E i \in 1..Len(page.rows) :
          /\ page.rows[i].type = "boolean"
          /\ page' = Edited([page.rows EXCEPT ![i].checked = ~page.rows[i].checked])
    /\ UNCHANGED pageFrame

\* lines 298-314: the publish button; the browser sends the session cookie
PublishClick ==
    /\ page.phase = "loaded"
    /\ LET data == collectData(page.rows)
       IN  Arrive(Req("POST", "/publish", CookieOf(<<JwtAtoms[1]>>), BodyOf(data), data,
                      "", FALSE, FALSE))

\* the user opens the editor: GET / with the session cookie
ArriveEditor ==
    /\ page.phase = "closed"
    /\ Arrive(Req("GET", "/", CookieOf(<<JwtAtoms[1]>>), <<>>, Undefined, "", FALSE, FALSE))

(***************************************************************************)
(* The initial states: a deployment with or without the KV binding, the    *)
(* key absent or holding a document written before.                        *)
(***************************************************************************)
KvBindings == {"missing", "strict", "coercing"}
SampleDoc == JObj(<<Member(<<"a">>, JNum(1))>>)
InitStores == {NoTxt, Txt(JSONstringify(SampleDoc, 0).s)}
NoPublished == [def |-> FALSE, data |-> Undefined]

InitServer ==
    /\ kvBinding \in KvBindings
    /\ kvStore \in InitStores
    /\ now = 0
    /\ issued = <<>>
    /\ users = <<>>
    /\ req = NoReq
    /\ resp = NoResp
    /\ token = NoTxt
    /\ published = NoPublished

NoPubs == [p \in Publishers |-> NoPub]

Init ==
    /\ InitServer
    /\ page = NoPage
    /\ pubs = NoPubs
    /\ writeLog = <<>>

\* the same, one user having logged in at time 0
InitLoggedIn ==
    /\ kvBinding \in KvBindings
    /\ kvStore \in InitStores
    /\ now = 0
    /\ issued = <<SignJWT(1, 0)>>
    /\ users = <<"ann">>
    /\ req = NoReq
    /\ resp = NoResp
    /\ token = NoTxt
    /\ published = NoPublished
    /\ page = NoPage
    /\ pubs = NoPubs
    /\ writeLog = <<>>

\* the documents the editor is opened on: published earlier by the user
EditorKeys == {<<>>, <<"a">>, <<" ", "a">>, <<"a", " ">>}
EditorValues ==
    {JStr(<<>>), JStr(<<"x">>), JStr(<<"x", QUOTE>>), JNum(0), JNum(12),
     JBool(FALSE), JBool(TRUE)}
EditorDocs ==
    {JObj(<<>>)}
    \cup {JObj(<<Member(k, v)>>) : k \in EditorKeys, v \in EditorValues}
    \cup {JObj(<<Member(<<"a">>, v), Member(<<"b">>, w)>>) :
            v \in {JStr(<<>>), JNum(0)}, w \in {JNum(0), JBool(FALSE)}}

InitEditor ==
    /\ kvBinding = "strict"
    /\ \E d \in EditorDocs :
          /\ kvStore = Txt(JSONstringify(d, PublishGap).s)
          /\ published = [def |-> TRUE, data |-> d]
    /\ now = 0
    /\ issued = <<SignJWT(1, 0)>>
    /\ users = <<"ann">>
    /\ req = NoReq
    /\ resp = NoResp
    /\ token = NoTxt
    /\ page = NoPage
    /\ pubs = NoPubs
    /\ writeLog = <<>>

(***************************************************************************)
(* Specifications.                                                         *)
(*   Spec            every route and body, one session, the clock at rest  *)
(*   SpecSession     sessions issued and verified as the clock moves       *)
(*   SpecCookie      fetch on every Cookie header of CookieHeaders         *)
(*   SpecPublishers  handlePublish invocations interleaved at their awaits *)
(*   SpecEditor      one visit of the editor page on a stored document     *)
(***************************************************************************)
Next == ArriveStore \/ Fetch \/ Deliver

Spec == Init /\ [][Next]_vars

NextSession == ArriveSession \/ Fetch \/ Deliver \/ Tick

SpecSession == Init /\ [][NextSession]_vars

NextCookie == ArriveCookie \/ Fetch \/ Deliver

SpecCookie == Init /\ [][NextCookie]_vars

NextPublishers ==
    \E p \in Publishers : PubArrive(p) \/ PubJson(p) \/ PubPut(p) \/ PubRespond(p)

SpecPublishers == InitLoggedIn /\ [][NextPublishers]_vars

NextEditor ==
    \/ ArriveEditor \/ Fetch \/ Deliver \/ OpenPage
    \/ AddRow \/ DeleteRow \/ ChangeType \/ EditKey \/ EditValue \/ ToggleCheck
    \/ PublishClick

SpecEditor == InitEditor /\ [][NextEditor]_vars

(***************************************************************************)
(* What the claims speak of.                                               *)
(***************************************************************************)
\* the value of the first pair named token of a Cookie header, read pair by
\* pair: pairs are separated by ";", a pair is name, "=", value
PairName(p) ==
    LET e == IndexOf(p, <<"=">>, 1) IN IF e = 0 THEN p ELSE SubSeq(p, 1, e - 1)
PairValue(p) ==
    LET e == IndexOf(p, <<"=">>, 1) IN IF e = 0 THEN <<>> ELSE SubSeq(p, e + 1, Len(p))
CarriedToken(cookie) ==
    IF ~cookie.def THEN NoTxt
    ELSE LET raw == Split(cookie.s, <<";">>)
             pairs == [i \in 1..Len(raw) |-> TrimStart(raw[i])]
             named == {i \in 1..Len(pairs) : PairName(pairs[i]) = <<"t", "o", "k", "e", "n">>}
         IN  IF named = {} THEN NoTxt
             ELSE Txt(PairValue(pairs[CHOOSE i \in named : \A j \in named : i <= j]))

IsPrimitive(v) == v.t \in {"string", "number", "boolean"}
IsFlatDoc(v) == v.t = "object" /\ \A i \in 1..Len(v.m) : IsPrimitive(v.m[i].v)

\* two objects with the same keys and the same value under each
SameObject(a, b) ==
    /\ a.t = "object" /\ b.t = "object"
    /\ \A i \in 1..Len(a.m) : \E j \in 1..Len(b.m) : a.m[i] = b.m[j]
    /\ \A j \in 1..Len(b.m) : \E i \in 1..Len(a.m) : a.m[i] = b.m[j]

\* a body of the shape { data: object }
IsPublishBody(body) ==
    LET p == JSONparse(body)
    IN  p.ok /\ p.v.t = "object" /\ GetMember(p.v, Chars_data).t = "object"

Served == resp # NoResp
ServedAuthenticated == Served /\ Authenticated(req, issued, now)
HandlerKinds == {"editor", "missingKv", "saved", "error", "api", "logout", "notFound"}
ByIssuer == resp.kind \in {"issuer", "login"} \/ (resp.kind = "exception" /\ req.login # "")

(***************************************************************************)
(* C1.  A request whose Cookie header carries no token, or a token that    *)
(* fails verification, is handed to the login issuer: no handler runs.     *)
(***************************************************************************)
C1_UnauthenticatedGoesToIssuer ==
    LET carried == CarriedToken(req.cookie)
    IN  (Served /\ (~carried.def \/ ~jwtVerify(carried.s, issued, now))) => ByIssuer

(***************************************************************************)
(* C2.  After a publish of a flat object D was answered 200, the next      *)
(* authenticated GET /api/config whose read the store serves is answered   *)
(* 200 with the two-space JSON text of D, which parses back to D.          *)
(***************************************************************************)
C2_PublishThenRead ==
    (/\ ServedAuthenticated
     /\ req.path = "/api/config"
     /\ ~req.kvFault
     /\ published.def
     /\ IsFlatDoc(published.data))
    => /\ resp.kind = "api"
       /\ resp.status = 200
       /\ resp.body = JSONstringify(published.data, 2).s
       /\ JSONparse(resp.body) = [ok |-> TRUE, v |-> published.data]

C2_Witness ==
    /\ ServedAuthenticated
    /\ req.path = "/api/config"
    /\ published.data = JObj(<<Member(<<"a">>, JStr(<<"x", QUOTE>>))>>)
    /\ resp.status = 200
    /\ resp.body = <<"{", NL, " ", " ", QUOTE, "a", QUOTE, ":", " ",
                     QUOTE, "x", BSLASH, QUOTE, QUOTE, NL, "}">>

(***************************************************************************)
(* C3.  An authenticated publish whose body is not JSON of the shape       *)
(* { data: object } is answered 500 and leaves the stored document as it   *)
(* was.  Stated for the deployments whose put rejects a value that is not  *)
(* text: where it holds for a body with no data member at all.             *)
(***************************************************************************)
C3_BadRequest ==
    [][(/\ req # NoReq /\ resp = NoResp /\ resp' # NoResp
        /\ kvBinding # "coercing"
        /\ Authenticated(req, issued, now)
        /\ req.path = "/publish"
        /\ ~IsPublishBody(req.body))
       => (resp'.status = 500 /\ kvStore' = kvStore)]_vars

(***************************************************************************)
(* C4.  The stored document is always JSON text of a flat object of        *)
(* strings, numbers and booleans, and /api/config returns that text, or {} *)
(* when the key is absent.  Stated for the same deployments as C3.         *)
(***************************************************************************)
C4_StoredDocumentIsFlat ==
    kvBinding # "coercing" =>
        /\ kvStore.def => /\ JSONparse(kvStore.s).ok
                          /\ IsFlatDoc(JSONparse(kvStore.s).v)
        /\ resp.kind = "api" =>
              resp.body = IF kvStore.def THEN kvStore.s ELSE EmptyObjectText

(***************************************************************************)
(* C5.  A session token minted at clock time t expires at t + 86400, the   *)
(* Max-Age of its cookie; it is accepted at every check time c with        *)
(* t <= c < t + 86400 and rejected at every check time after t + 86400.    *)
(***************************************************************************)
C5_SessionWindow ==
    /\ \A k \in 1..Len(issued) :
          (Served /\ req.cookie = CookieOf(<<JwtAtoms[k]>>)) =>
              LET t == issued[k].iat
              IN  /\ (t <= now /\ now < t + 86400) => resp.kind \in HandlerKinds
                  /\ now > t + 86400 => resp.kind = "issuer"
    /\ resp.kind = "login" =>
          /\ resp.cookie = SetCookie(<<JwtAtoms[Len(issued)]>>, 86400)
          /\ issued[Len(issued)].iat = now
          /\ issued[Len(issued)].exp = now + 86400

\* a session minted at second 1 is accepted at second 86400
C5_Witness ==
    /\ Served
    /\ req.cookie = CookieOf(<<JwtAtoms[1]>>)
    /\ Len(issued) >= 1
    /\ issued[1].iat = 1
    /\ now = 86400
    /\ resp.kind = "editor"

(***************************************************************************)
(* C6.  An authenticated request to /, /publish or /api/config always ends *)
(* in a response built by its handler, with status 500 when the binding is *)
(* missing and when the store fails: no exception escapes fetch.           *)
(***************************************************************************)
C6_EveryFailureIsAResponse ==
    (ServedAuthenticated /\ req.path \in {"/", "/publish", "/api/config"})
    => /\ resp.kind # "exception"
       /\ kvBinding = "missing" => resp.status = 500
       /\ req.kvFault => resp.status = 500

(***************************************************************************)
(* C7.  The editor opened on a stored flat document D and not edited       *)
(* collects an object equal to D.                                          *)
(***************************************************************************)
C7_EditorRoundTrip ==
    (/\ page.phase # "closed"
     /\ page.edits = 0
     /\ JSONparse(page.config).ok
     /\ IsFlatDoc(JSONparse(page.config).v))
    => /\ page.phase = "loaded"
       /\ SameObject(page.data, JSONparse(page.config).v)

(***************************************************************************)
(* C8.  When publishes that interleave have all completed, each was        *)
(* answered 200 and the stored document is exactly the text of the publish *)
(* whose store write came last.                                            *)
(***************************************************************************)
C8_LastWriterWins ==
    (/\ kvBinding # "missing"
     /\ \A p \in Publishers : pubs[p].pc = "done" /\ ~pubs[p].req.kvFault)
    => /\ \A p \in Publishers : pubs[p].resp.status = 200
       /\ Len(writeLog) = MaxPublishers
       /\ \A p \in Publishers : \E i \in 1..Len(writeLog) : writeLog[i] = p
       /\ kvStore = Txt(JSONstringify(pubs[writeLog[Len(writeLog)]].req.data, 2).s)

\* publish 1 arrived with another document than publish 2 and wrote last
C8_Witness ==
    /\ \A p \in Publishers : pubs[p].pc = "done" /\ pubs[p].resp.status = 200
    /\ pubs[1].req.data # pubs[2].req.data
    /\ writeLog[Len(writeLog)] = 1
    /\ writeLog[1] = 2
    /\ kvStore = Txt(JSONstringify(pubs[1].req.data, 2).s)

(***************************************************************************)
(* C9.  The credential fetch extracts is the full value of the pair named  *)
(* token of the Cookie header, and is absent when there is no such pair.   *)
(***************************************************************************)
C9_TokenIsFullValue == Served => token = CarriedToken(req.cookie)

(***************************************************************************)
(* C10.  The stored document changes only in the serving of an             *)
(* authenticated POST to /publish that is answered 200.  Stated for the    *)
(* same deployments as C3 and for requests whose body has the shape        *)
(* { data: object }.                                                       *)
(***************************************************************************)
C10_OnlyPostPublishWrites ==
    [][(/\ kvBinding # "coercing"
        /\ kvStore' # kvStore
        /\ IsPublishBody(req.body))
       => (/\ req # NoReq /\ resp = NoResp
           /\ req.method = "POST"
           /\ req.path = "/publish"
           /\ Authenticated(req, issued, now)
           /\ resp'.status = 200)]_vars

=============================================================================
